---- MODULE Spec2Model ----
(***************************************************************************)
(* Editor state machine of src/src/ThreeDEditor.jsx: the object registry   *)
(* (objects), the selection (selectedObject, selectedObjects), the         *)
(* transform gizmo, the render scene and the undo history.                 *)
(*                                                                         *)
(* JavaScript objects are modelled by reference.  `rec` is the heap of     *)
(* the {id, name, type, mesh} records and `mesh` the heap of THREE.Mesh    *)
(* objects (transform, material, geometry, number of dispose() calls).     *)
(* The React state variables hold references into `rec`, so a shallow      *)
(* copy ({...selectedObject}) is a new reference with the same mesh.       *)
(* Every event handler is one atomic step: React batches the state         *)
(* updates of a handler and re-renders before the next event, so each      *)
(* handler reads the state of the latest render.  The two callbacks that   *)
(* run later with the closure of an earlier render (the mount timer and    *)
(* the import completion) carry that closure explicitly.                   *)
(*                                                                         *)
(* Numbers are fixed point: lengths, scales and material scalars in        *)
(* hundredths (0.5 is 50), rotations in half degrees (-PI/2 is -180).      *)
(* Colours are the 24-bit value the editor reads with getHex().            *)
(***************************************************************************)
EXTENDS Integers, Sequences, FiniteSets, TLC

VARIABLES
  rec,             \* heap: reference -> [id, name, type, mesh]
  mesh,            \* heap: mesh handle -> mesh/material/geometry fields
  objects,         \* useState objects: sequence of references
  selectedObject,  \* useState selectedObject: reference or Null
  selectedObjects, \* useState selectedObjects: sequence of references
  undoStack,       \* useState undoStack: sequence of snapshots
  objectCounter,   \* useState objectCounter
  scene,           \* user meshes that are children of sceneRef.current
  gizmo,           \* transformControls.object: mesh handle or Null
  nextId,          \* number of ids generateId has returned so far
  timerPending,    \* the mount effect's setTimeout has not fired yet
  imports,         \* imports in flight: closures of importModel calls
  transformMode,   \* useState transformMode
  snapEnabled,     \* useState snapEnabled
  snapSize,        \* useState snapSize
  gizmoSnap,       \* translationSnap, rotationSnap, scaleSnap of the gizmo
  dragging,        \* transformControls.dragging
  orbitEnabled,    \* orbitControls.enabled
  home,            \* HomePage: its state, its effects' locals, the window
  parametric,      \* createParametricGeometry: its arguments and locals
  history,         \* ghost: [on, views], the unbounded stack of full views
  fuel,            \* ghost: state-growing operations still allowed
  lastOp,          \* ghost: the operation the last step ran
  lastArg          \* ghost: the arguments the handler passed to it

vars == <<rec, mesh, objects, selectedObject, selectedObjects, undoStack,
          objectCounter, scene, gizmo, nextId, timerPending, imports,
          transformMode, snapEnabled, snapSize, gizmoSnap, dragging,
          orbitEnabled, home, parametric, history, fuel, lastOp, lastArg>>

\* the variables of ThreeDEditor
editor == <<rec, mesh, objects, selectedObject, selectedObjects, undoStack,
            objectCounter, scene, gizmo, nextId, timerPending, imports,
            transformMode, snapEnabled, snapSize, gizmoSnap, dragging,
            orbitEnabled, history, fuel, lastOp, lastArg>>

Null == 0

(* ------------------------------ bounds -------------------------------- *)
\* snapshot pushes and edits one run may make
MaxFuel == 3
\* the same for the runs of the property editor
EditFuel == 3
\* the same for the runs that fill the undo stack past its capacity
BoundFuel == 22
\* imports in flight at one time
MaxImports == 1

(* ------------------------- program constants -------------------------- *)
UndoCapacity == 20
HighlightHex == 3355443
DefaultMetalness == 30
DefaultRoughness == 70
DuplicateOffset == 100
DefaultSnapSize == 50
RotationSnapDegrees == 15
ScaleSnap == 10

(* --------------------------- input domains ---------------------------- *)
\* the largest slices and stacks passed to createParametricGeometry
MaxSlices == 3
MaxStacks == 3
\* events HomePage may still get, and frames without a callback
MaxEvents == 4
\* throttleMs of the mousemove and of the scroll effect, in ms
MouseThrottleMs == 16
ScrollThrottleMs == 32
\* setShowScrollTop(currentScrollY > 300)
ShowTopAfter == 300
\* Date.now() when HomePage mounts, window.innerWidth, window.innerHeight
\* and scrollHeight - clientHeight of the document
MountTime == 1000
InnerWidth == 1000
InnerHeight == 500
WindowHeight == 1000
\* clientX, clientY of mousemove events
Pointers == {[clientX |-> 100, clientY |-> 50], [clientX |-> 700, clientY |-> 400]}
\* window.scrollY after a scroll event
ScrollYs == {200, 400}
\* ms from one animation frame to the next: a 120 Hz and a 60 Hz display
FrameGaps == {8, 17}
\* every key handleKeyDown has a case for
AllKeys == {"t", "r", "s", "delete", "backspace", "d", "a", "escape", "z"}
\* event.target.tagName of a keydown: a field of the panels, the page
KeyTargets == {"INPUT", "BODY"}
\* the shape kind the Add buttons pass in the runs that need one kind
AddKinds == {"cube"}
\* the cases of addPrimitive's switch the model keeps
SwitchKinds == {"cube", "sphere", "plane", "heart"}
\* kinds passed to addPrimitive: with a case in the switches of addPrimitive
\* and undo (sphere), with a case in addPrimitive's only (heart), with none
ShapeKinds == {"sphere", "heart", "blob"}
\* hues Math.random() can produce in addPrimitive
RandomColors == {16724787}
\* keys of handleKeyDown's switch that act on the registry or the selection
Keys == {"delete", "d", "a", "escape", "z"}
\* typed or picked values per input of the properties panel
Num(v) == [numeric |-> TRUE, val |-> v, text |-> "number"]
EditInputs ==
  [name |-> {[numeric |-> FALSE, val |-> 0, text |-> "Renamed"]},
   positionX |-> {Num(200)},
   rotationY |-> {Num(45)},
   scaleX |-> {Num(200)},
   color |-> {Num(255)},
   metalness |-> {Num(90)},
   roughness |-> {Num(10)},
   wireframe |-> {Num(1)},
   opacity |-> {Num(50)},
   emissive |-> {Num(65280)}]
\* parsed files: the nodes gltf.scene.traverse visits
ImportFiles ==
  {<<[isMesh |-> TRUE, material |-> TRUE, named |-> FALSE, standard |-> TRUE,
      color |-> 8947848, metalness |-> 100, roughness |-> 100]>>}
\* nodes of a parsed file: a mesh with a standard material, a mesh whose
\* material is of another class, a mesh that has no material (child.material
\* is undefined) and a node that is no mesh
ValidNode == [isMesh |-> TRUE, material |-> TRUE, named |-> FALSE, standard |-> TRUE,
              color |-> 8947848, metalness |-> 100, roughness |-> 100]
BasicNode == [ValidNode EXCEPT !.standard = FALSE, !.named = TRUE]
BrokenNode == [ValidNode EXCEPT !.material = FALSE]
GroupNode == [ValidNode EXCEPT !.isMesh = FALSE]
\* parsed files with several nodes
BlobFiles == {<<GroupNode, ValidNode, BasicNode>>,
              <<ValidNode, BrokenNode, ValidNode>>,
              <<GroupNode>>}
\* steps of a gizmo drag along x
DragDeltas == {50}
\* the text of a field that holds no number: parseFloat gives NaN
NotANumber == [numeric |-> FALSE, val |-> 0, text |-> ""]
\* texts typed into a position, a rotation and a scale field: 0, 1.5,
\* -0.25 (degrees for the rotation) and no number
TypedInputs ==
  [positionY |-> {Num(0), Num(150), Num(-25), NotANumber},
   rotationY |-> {Num(0), Num(150), Num(-25), NotANumber},
   scaleX |-> {Num(0), Num(150), Num(-25), NotANumber}]
\* texts typed into the Snap Size input: 0.1, 1, 0, -0.5 and no number
SnapSizeInputs == {Num(10), Num(100), Num(0), Num(-50),
                   [numeric |-> FALSE, val |-> 0, text |-> "abc"]}
\* values passed to snapToGrid
SnapValues == {123, 125, 130, 7, 0, -3, -125}
\* two of the Uniform Size preset buttons [0.5, 1, 1.5, 2, 3, 5]
ScalePresets == {50, 200}

(* ----------------------------- sequences ------------------------------ *)
Range(s) == {s[i] : i \in 1..Len(s)}

Last(s) == s[Len(s)]

\* Array.prototype.slice(-n)
SliceLast(s, n) == IF Len(s) > n THEN SubSeq(s, Len(s) - n + 1, Len(s)) ELSE s

\* Array.prototype.slice(0, -1)
DropLast(s) == SubSeq(s, 1, Len(s) - 1)

\* a handle no live object uses (a new JS object)
NewHandle(dom) == CHOOSE n \in 1..(Cardinality(dom) + 1) : n \notin dom

(* ------------------------- the editor state --------------------------- *)
\* the state one handler reads and the state it leaves
St ==
  [rec |-> rec, mesh |-> mesh, objects |-> objects,
   selectedObject |-> selectedObject, selectedObjects |-> selectedObjects,
   undoStack |-> undoStack, objectCounter |-> objectCounter,
   scene |-> scene, gizmo |-> gizmo, nextId |-> nextId,
   timerPending |-> timerPending, imports |-> imports,
   transformMode |-> transformMode, snapEnabled |-> snapEnabled,
   snapSize |-> snapSize, gizmoSnap |-> gizmoSnap, dragging |-> dragging,
   orbitEnabled |-> orbitEnabled, history |-> history, fuel |-> fuel]

MeshOf(S, r) == S.rec[r].mesh

MeshesOf(S, refs) == {S.rec[refs[i]].mesh : i \in 1..Len(refs)}

\* references and meshes some variable or pending closure can still reach;
\* a mesh disposed twice is kept as the record of the double release
Collect(S) ==
  LET closureRefs == UNION {Range(S.imports[i].objects) : i \in 1..Len(S.imports)}
      liveRefs == (Range(S.objects) \cup Range(S.selectedObjects)
                     \cup {S.selectedObject} \cup closureRefs) \ {Null}
      liveMeshes == ({S.rec[r].mesh : r \in liveRefs} \cup S.scene \cup {S.gizmo}
                       \cup {m \in DOMAIN S.mesh : S.mesh[m].disposed > 1}) \ {Null}
  IN [S EXCEPT !.rec = [r \in liveRefs |-> S.rec[r]],
               !.mesh = [m \in liveMeshes |-> S.mesh[m]]]

\* the arguments of a handler that passes none
\* `after` is the operation that ran before an undo, `result` the value a
\* pure function returned, `alert` the text the handler passed to alert(),
\* `target` and `key` the element an event hit and the event.key of a keydown
NoArg == [id |-> Null, add |-> FALSE, property |-> "", value |-> Num(0),
          after |-> "", result |-> 0, alert |-> "", target |-> "", key |-> ""]

\* the state after a handler that ran operation op with arguments arg
Step(S, op, arg) ==
  \E T \in {Collect(S)} :
     /\ T.fuel >= 0
     /\ rec' = T.rec
     /\ mesh' = T.mesh
     /\ objects' = T.objects
     /\ selectedObject' = T.selectedObject
     /\ selectedObjects' = T.selectedObjects
     /\ undoStack' = T.undoStack
     /\ objectCounter' = T.objectCounter
     /\ scene' = T.scene
     /\ gizmo' = T.gizmo
     /\ nextId' = T.nextId
     /\ timerPending' = T.timerPending
     /\ imports' = T.imports
     /\ transformMode' = T.transformMode
     /\ snapEnabled' = T.snapEnabled
     /\ snapSize' = T.snapSize
     /\ gizmoSnap' = T.gizmoSnap
     /\ dragging' = T.dragging
     /\ orbitEnabled' = T.orbitEnabled
     /\ home' = home
     /\ parametric' = parametric
     /\ history' = T.history
     /\ fuel' = T.fuel
     /\ lastOp' = op
     /\ lastArg' = arg

\* the state after a handler that ran operation op
Commit(S, op) == Step(S, op, NoArg)

(* ------------------------------ geometry ------------------------------ *)
\* addPrimitive's switch without its default case: no geometry
AddGeometryNoDefault(type) ==
  CASE type = "cube" -> "Box(1,1,1)"
    [] type = "sphere" -> "Sphere(0.5,32,32)"
    [] type = "plane" -> "Plane(2,2)"
    [] type = "heart" -> "Extrude(heartShape)"
    [] OTHER -> "undefined"

\* the geometry addPrimitive's switch builds for a shape kind
AddGeometry(type) ==
  CASE type = "cube" -> "Box(1,1,1)"
    [] type = "sphere" -> "Sphere(0.5,32,32)"
    [] type = "plane" -> "Plane(2,2)"
    [] type = "heart" -> "Extrude(heartShape)"
    [] OTHER -> "Box(1,1,1)"

\* the name addPrimitive's switch gives: `${Label}_${objectCounter}`
AddName(type, counter) ==
  [base |-> CASE type = "cube" -> "Cube"
              [] type = "sphere" -> "Sphere"
              [] type = "plane" -> "Plane"
              [] type = "heart" -> "Heart"
              [] OTHER -> "Object",
   n |-> counter, copies |-> 0]

\* the geometry undo's switch builds for a stored shape kind
UndoGeometry(type) ==
  CASE type = "cube" -> "Box(1,1,1)"
    [] type = "sphere" -> "Sphere(0.5,32,32)"
    [] type = "plane" -> "Plane(2,2)"
    [] OTHER -> "Box(1,1,1)"

(* ---------------------------- undo history ---------------------------- *)
\* the per-object value copy saveUndoState stores
SavedObject(S, r) ==
  LET o == S.rec[r]
      m == S.mesh[o.mesh]
  IN [id |-> o.id, name |-> o.name, type |-> o.type,
      position |-> m.position, rotation |-> m.rotation, scale |-> m.scale,
      color |-> m.color, metalness |-> m.metalness,
      roughness |-> m.roughness, visible |-> m.visible]

\* ghost: every field of an object the editor lets the user edit, but for
\* emissive, which selectObject also uses as the selection highlight
FullObject(S, r) ==
  LET o == S.rec[r]
      m == S.mesh[o.mesh]
  IN [id |-> o.id, name |-> o.name, type |-> o.type,
      position |-> m.position, rotation |-> m.rotation, scale |-> m.scale,
      color |-> m.color, metalness |-> m.metalness,
      roughness |-> m.roughness, opacity |-> m.opacity,
      wireframe |-> m.wireframe, visible |-> m.visible,
      geometry |-> m.geometry]

FullView(S, refs) == [i \in 1..Len(refs) |-> FullObject(S, refs[i])]

\* the part of a full view a snapshot keeps
Saved(full) ==
  [id |-> full.id, name |-> full.name, type |-> full.type,
   position |-> full.position, rotation |-> full.rotation,
   scale |-> full.scale, color |-> full.color, metalness |-> full.metalness,
   roughness |-> full.roughness, visible |-> full.visible]

\* saveUndoState keeping the first 20 states, slice(0, 20)
PushBoundedKeepOldest(stack, state) ==
  LET newStack == Append(stack, state)
  IN IF Len(newStack) > UndoCapacity THEN SubSeq(newStack, 1, UndoCapacity)
     ELSE newStack

\* setUndoStack(prev => ...) of saveUndoState: push, keep the last 20
PushBounded(stack, state) ==
  LET newStack == Append(stack, state)
  IN IF Len(newStack) > UndoCapacity THEN SliceLast(newStack, UndoCapacity)
     ELSE newStack

\* saveUndoState with the `objects` of its closure
SaveUndoState(S, objs) ==
  [S EXCEPT !.undoStack = PushBounded(@, [i \in 1..Len(objs) |-> SavedObject(S, objs[i])]),
            !.history = IF @.on THEN [@ EXCEPT !.views = Append(@, FullView(S, objs))]
                        ELSE @,
            !.fuel = @ - 1]

(* ------------------------------ selection ----------------------------- *)
SetEmissive(S, meshes, hex) ==
  [S EXCEPT !.mesh = [m \in DOMAIN S.mesh |->
                        IF m \in meshes THEN [S.mesh[m] EXCEPT !.emissive = hex]
                        ELSE S.mesh[m]]]

\* selectObject attaching the gizmo to newSelection[0], the first selected
SelectObjectAttachFirst(S, objs, obj, addToSelection) ==
  LET cleared == SetEmissive(S, MeshesOf(S, objs), 0)
  IN IF obj # Null
     THEN IF addToSelection
          THEN LET prev == S.selectedObjects
                   isAlreadySelected ==
                     \E i \in 1..Len(prev) : S.rec[prev[i]].id = S.rec[obj].id
                   newSelection ==
                     IF isAlreadySelected
                     THEN SelectSeq(prev, LAMBDA o : S.rec[o].id # S.rec[obj].id)
                     ELSE Append(prev, obj)
                   lit == SetEmissive(cleared, MeshesOf(S, newSelection), HighlightHex)
               IN IF Len(newSelection) > 0
                  THEN [lit EXCEPT !.gizmo = MeshOf(S, newSelection[1]),
                                   !.selectedObject = newSelection[1],
                                   !.selectedObjects = newSelection]
                  ELSE [lit EXCEPT !.gizmo = Null,
                                   !.selectedObject = Null,
                                   !.selectedObjects = newSelection]
          ELSE [SetEmissive(cleared, {MeshOf(S, obj)}, HighlightHex)
                  EXCEPT !.gizmo = MeshOf(S, obj),
                         !.selectedObject = obj,
                         !.selectedObjects = <<obj>>]
     ELSE [cleared EXCEPT !.gizmo = Null,
                          !.selectedObject = Null,
                          !.selectedObjects = <<>>]

\* selectObject(obj, addToSelection) with the `objects` of its closure
SelectObject(S, objs, obj, addToSelection) ==
  LET cleared == SetEmissive(S, MeshesOf(S, objs), 0)
  IN IF obj # Null
     THEN IF addToSelection
          THEN LET prev == S.selectedObjects
                   isAlreadySelected ==
                     \E i \in 1..Len(prev) : S.rec[prev[i]].id = S.rec[obj].id
                   newSelection ==
                     IF isAlreadySelected
                     THEN SelectSeq(prev, LAMBDA o : S.rec[o].id # S.rec[obj].id)
                     ELSE Append(prev, obj)
                   lit == SetEmissive(cleared, MeshesOf(S, newSelection), HighlightHex)
               IN IF Len(newSelection) > 0
                  THEN [lit EXCEPT !.gizmo = MeshOf(S, Last(newSelection)),
                                   !.selectedObject = Last(newSelection),
                                   !.selectedObjects = newSelection]
                  ELSE [lit EXCEPT !.gizmo = Null,
                                   !.selectedObject = Null,
                                   !.selectedObjects = newSelection]
          ELSE [SetEmissive(cleared, {MeshOf(S, obj)}, HighlightHex)
                  EXCEPT !.gizmo = MeshOf(S, obj),
                         !.selectedObject = obj,
                         !.selectedObjects = <<obj>>]
     ELSE [cleared EXCEPT !.gizmo = Null,
                          !.selectedObject = Null,
                          !.selectedObjects = <<>>]

(* ----------------------------- add primitive -------------------------- *)
\* the material and mesh addPrimitive creates
NewPrimitiveMesh(type, color) ==
  [position |-> <<0, IF type = "plane" THEN 1 ELSE 50, 0>>,
   rotation |-> <<IF type = "plane" THEN -180 ELSE 0, 0, 0>>,
   scale |-> <<100, 100, 100>>,
   color |-> color, metalness |-> DefaultMetalness,
   roughness |-> DefaultRoughness, opacity |-> 100, transparent |-> TRUE,
   emissive |-> 0, emissiveIntensity |-> 0, wireframe |-> FALSE,
   visible |-> TRUE, geometry |-> AddGeometry(type), disposed |-> 0]

\* S with a new mesh m and a new record r = {id, name, type, mesh: m}
WithObject(S, r, m, fields, id, name, type) ==
  [S EXCEPT !.mesh = [h \in DOMAIN S.mesh \cup {m} |->
                        IF h = m THEN fields ELSE S.mesh[h]],
            !.rec = [q \in DOMAIN S.rec \cup {r} |->
                       IF q = r THEN [id |-> id, name |-> name, type |-> type, mesh |-> m]
                       ELSE S.rec[q]]]

\* generateId without its random part, called twice in one millisecond
GenerateIdSameTick(S) == IF S.nextId = 0 THEN 1 ELSE S.nextId

\* generateId: a timestamp and nine random digits, taken as never repeating
GenerateId(S) == S.nextId + 1

\* addPrimitive(type) with the `objects` and `objectCounter` of its closure
AddPrimitive(S, objs, counter, type, color) ==
  LET S1 == SaveUndoState(S, objs)
      m == NewHandle(DOMAIN S1.mesh)
      r == NewHandle(DOMAIN S1.rec)
      id == GenerateId(S1)
      S2 == WithObject(S1, r, m, NewPrimitiveMesh(type, color), id,
                       AddName(type, counter), type)
      S3 == [S2 EXCEPT !.scene = @ \cup {m},
                       !.nextId = id,
                       !.objects = Append(@, r),
                       !.objectCounter = @ + 1]
  IN SelectObject(S3, objs, r, FALSE)

(* ------------------------------- delete ------------------------------- *)
\* geometry.dispose() and material.dispose() once per entry of refs; the
\* count stops at 2, "released more than once"
Dispose(S, refs) ==
  [S EXCEPT !.mesh = [m \in DOMAIN S.mesh |->
     LET n == Cardinality({i \in 1..Len(refs) : S.rec[refs[i]].mesh = m})
         d == S.mesh[m].disposed + n
     IN [S.mesh[m] EXCEPT !.disposed = IF d > 2 THEN 2 ELSE d]]]

\* deleteObject without its setSelectedObjects(prev => prev.filter(...))
DeleteObjectKeepSelection(S, obj) ==
  IF obj = Null THEN S
  ELSE LET S1 == SaveUndoState(S, S.objects)
           isPrimary == /\ S.selectedObject # Null
                        /\ S.rec[S.selectedObject].id = S.rec[obj].id
           S2 == IF isPrimary
                 THEN [S1 EXCEPT !.gizmo = Null, !.selectedObject = Null]
                 ELSE S1
           S3 == [S2 EXCEPT !.scene = @ \ {MeshOf(S, obj)}]
           S4 == Dispose(S3, <<obj>>)
       IN [S4 EXCEPT !.objects = SelectSeq(@, LAMBDA o : S.rec[o].id # S.rec[obj].id)]

\* deleteObject(obj) with the `selectedObject` and `objects` of its closure
DeleteObject(S, obj) ==
  IF obj = Null THEN S
  ELSE LET S1 == SaveUndoState(S, S.objects)
           isPrimary == /\ S.selectedObject # Null
                        /\ S.rec[S.selectedObject].id = S.rec[obj].id
           S2 == IF isPrimary
                 THEN [S1 EXCEPT !.gizmo = Null, !.selectedObject = Null]
                 ELSE S1
           S3 == [S2 EXCEPT
                    !.selectedObjects = SelectSeq(@, LAMBDA o : S.rec[o].id # S.rec[obj].id),
                    !.scene = @ \ {MeshOf(S, obj)}]
           S4 == Dispose(S3, <<obj>>)
       IN [S4 EXCEPT !.objects = SelectSeq(@, LAMBDA o : S.rec[o].id # S.rec[obj].id)]

\* deleteSelectedObjects with the `selectedObjects` of its closure
DeleteSelectedObjects(S) ==
  IF Len(S.selectedObjects) = 0 THEN S
  ELSE LET sel == S.selectedObjects
           S1 == SaveUndoState(S, S.objects)
           S2 == Dispose([S1 EXCEPT !.scene = @ \ MeshesOf(S, sel)], sel)
       IN [S2 EXCEPT
             !.objects = SelectSeq(@, LAMBDA o :
                           ~ \E i \in 1..Len(sel) : S.rec[sel[i]].id = S.rec[o].id),
             !.selectedObjects = <<>>,
             !.selectedObject = Null,
             !.gizmo = Null]

\* selectAllObjects with the `objects` of its closure
SelectAllObjects(S) ==
  LET lit == SetEmissive(S, MeshesOf(S, S.objects), HighlightHex)
      S1 == [lit EXCEPT !.selectedObjects = S.objects]
  IN IF Len(S.objects) > 0
     THEN [S1 EXCEPT !.selectedObject = Last(S.objects),
                     !.gizmo = MeshOf(S, Last(S.objects))]
     ELSE S1

(* ------------------------------ duplicate ----------------------------- *)
\* duplicateObject offsetting the copy with mesh.position.z += 1
DuplicateObjectAlongZ(S, obj) ==
  IF obj = Null THEN S
  ELSE LET S1 == SaveUndoState(S, S.objects)
           src == S.mesh[MeshOf(S, obj)]
           m == NewHandle(DOMAIN S1.mesh)
           r == NewHandle(DOMAIN S1.rec)
           id == GenerateId(S1)
           fields == [src EXCEPT !.position = [@ EXCEPT ![3] = @ + DuplicateOffset],
                                 !.visible = TRUE,
                                 !.disposed = 0]
           name == [S.rec[obj].name EXCEPT !.copies = @ + 1]
           S2 == WithObject(S1, r, m, fields, id, name, S.rec[obj].type)
           S3 == [S2 EXCEPT !.scene = @ \cup {m},
                            !.nextId = id,
                            !.objects = Append(@, r)]
       IN SelectObject(S3, S.objects, r, FALSE)

\* duplicateObject(obj): geometry.clone(), material.clone(), a new Mesh
DuplicateObject(S, obj) ==
  IF obj = Null THEN S
  ELSE LET S1 == SaveUndoState(S, S.objects)
           src == S.mesh[MeshOf(S, obj)]
           m == NewHandle(DOMAIN S1.mesh)
           r == NewHandle(DOMAIN S1.rec)
           id == GenerateId(S1)
           fields == [src EXCEPT !.position = [@ EXCEPT ![1] = @ + DuplicateOffset],
                                 !.visible = TRUE,
                                 !.disposed = 0]
           name == [S.rec[obj].name EXCEPT !.copies = @ + 1]
           S2 == WithObject(S1, r, m, fields, id, name, S.rec[obj].type)
           S3 == [S2 EXCEPT !.scene = @ \cup {m},
                            !.nextId = id,
                            !.objects = Append(@, r)]
       IN SelectObject(S3, S.objects, r, FALSE)

(* ------------------------------ visibility ---------------------------- *)
\* toggleVisibility(obj)
ToggleVisibility(S, obj) ==
  IF obj = Null THEN S
  ELSE [S EXCEPT !.mesh[MeshOf(S, obj)].visible = ~ @, !.fuel = @ - 1]

(* --------------------------- property editor -------------------------- *)
\* parseFloat of a typed field: the number, or NaN for text with no number
ParseFloat(text) == IF text.numeric THEN [nan |-> FALSE, val |-> text.val]
                    ELSE [nan |-> TRUE, val |-> 0]

\* `x || d` giving d only for a parsed 0; a NaN is stored as 0
OrElseZeroOnly(x, d) == IF x.val = 0 /\ ~ x.nan THEN d ELSE x.val

\* JavaScript `x || d` on a number: d when x is NaN or 0
OrElse(x, d) == IF x.nan \/ x.val = 0 THEN d ELSE x.val

\* THREE.MathUtils.degToRad, degrees to half degrees of arc
DegToRad(deg) == 2 * deg

Axis(property) ==
  CASE property \in {"positionX", "rotationX", "scaleX"} -> 1
    [] property \in {"positionY", "rotationY", "scaleY"} -> 2
    [] property \in {"positionZ", "rotationZ", "scaleZ"} -> 3

\* the switch of updateObjectProperty on the mesh of the primary selection
EditMesh(m, property, value) ==
  CASE property \in {"positionX", "positionY", "positionZ"} ->
         [m EXCEPT !.position[Axis(property)] = OrElse(ParseFloat(value), 0)]
    [] property \in {"rotationX", "rotationY", "rotationZ"} ->
         [m EXCEPT !.rotation[Axis(property)] = DegToRad(OrElse(ParseFloat(value), 0))]
    [] property \in {"scaleX", "scaleY", "scaleZ"} ->
         [m EXCEPT !.scale[Axis(property)] = OrElse(ParseFloat(value), 100)]
    [] property = "color" -> [m EXCEPT !.color = value.val]
    [] property = "metalness" -> [m EXCEPT !.metalness = ParseFloat(value).val]
    [] property = "roughness" -> [m EXCEPT !.roughness = ParseFloat(value).val]
    [] property = "wireframe" -> [m EXCEPT !.wireframe = (value.val = 1)]
    [] property = "opacity" ->
         [m EXCEPT !.opacity = ParseFloat(value).val,
                   !.transparent = (ParseFloat(value).val < 100)]
    [] property = "emissive" -> [m EXCEPT !.emissive = value.val]
    [] property = "emissiveIntensity" ->
         [m EXCEPT !.emissiveIntensity = ParseFloat(value).val]
    [] OTHER -> m

\* {...selectedObject}: a new record with the fields of the primary
CopyPrimary(S) ==
  LET r == NewHandle(DOMAIN S.rec)
  IN [S EXCEPT !.rec = [q \in DOMAIN S.rec \cup {r} |->
                          IF q = r THEN S.rec[S.selectedObject] ELSE S.rec[q]],
               !.selectedObject = r]

\* updateObjectProperty where saveUndoState had stored mesh.position,
\* mesh.rotation and mesh.scale themselves and not their clone(): the
\* snapshots of the edited object show the edit
UpdateObjectPropertyShared(S, property, value) ==
  IF S.selectedObject = Null THEN S
  ELSE LET h == MeshOf(S, S.selectedObject)
           id == S.rec[S.selectedObject].id
           S1 == IF property = "name"
                 THEN [S EXCEPT !.rec[S.selectedObject].name =
                                   [base |-> value.text, n |-> 0, copies |-> 0]]
                 ELSE [S EXCEPT !.mesh[h] = EditMesh(@, property, value)]
           shared(e) == IF e.id = id
                        THEN [e EXCEPT !.position = S1.mesh[h].position,
                                       !.rotation = S1.mesh[h].rotation,
                                       !.scale = S1.mesh[h].scale]
                        ELSE e
           stack == [k \in 1..Len(S.undoStack) |->
                       [i \in 1..Len(S.undoStack[k]) |-> shared(S.undoStack[k][i])]]
       IN CopyPrimary([S1 EXCEPT !.fuel = @ - 1, !.undoStack = stack])

\* updateObjectProperty(property, value) with the `selectedObject` of its
\* closure; a name is a typed text, kept as [base, n, copies]
UpdateObjectProperty(S, property, value) ==
  IF S.selectedObject = Null THEN S
  ELSE LET h == MeshOf(S, S.selectedObject)
           S1 == IF property = "name"
                 THEN [S EXCEPT !.rec[S.selectedObject].name =
                                   [base |-> value.text, n |-> 0, copies |-> 0]]
                 ELSE [S EXCEPT !.mesh[h] = EditMesh(@, property, value)]
       IN CopyPrimary([S1 EXCEPT !.fuel = @ - 1])

\* the Uniform Size controls: updateObjectProperty for scaleX, scaleY and
\* scaleZ in one handler, all three with the `selectedObject` of its render
UniformScale(S, newScale) ==
  IF S.selectedObject = Null THEN S
  ELSE LET h == MeshOf(S, S.selectedObject)
           x == EditMesh(S.mesh[h], "scaleX", Num(newScale))
           y == EditMesh(x, "scaleY", Num(newScale))
           z == EditMesh(y, "scaleZ", Num(newScale))
       IN CopyPrimary([S EXCEPT !.mesh[h] = z, !.fuel = @ - 1])

\* Math.max and Math.min of the Decrease Size and Increase Size buttons
Max(a, b) == IF a > b THEN a ELSE b

Min(a, b) == IF a < b THEN a ELSE b

(* -------------------------------- undo -------------------------------- *)
\* undo without mesh.position.copy(savedObj.position)
RehydratedMeshAtOrigin(savedObj) ==
  [position |-> <<0, 0, 0>>, rotation |-> savedObj.rotation,
   scale |-> savedObj.scale, color |-> savedObj.color,
   metalness |-> savedObj.metalness, roughness |-> savedObj.roughness,
   opacity |-> 100, transparent |-> FALSE, emissive |-> 0,
   emissiveIntensity |-> 100, wireframe |-> FALSE,
   visible |-> savedObj.visible, geometry |-> UndoGeometry(savedObj.type),
   disposed |-> 0]

\* the material and mesh undo creates for one snapshot entry
RehydratedMesh(savedObj) ==
  [position |-> savedObj.position, rotation |-> savedObj.rotation,
   scale |-> savedObj.scale, color |-> savedObj.color,
   metalness |-> savedObj.metalness, roughness |-> savedObj.roughness,
   opacity |-> 100, transparent |-> FALSE, emissive |-> 0,
   emissiveIntensity |-> 100, wireframe |-> FALSE,
   visible |-> savedObj.visible, geometry |-> UndoGeometry(savedObj.type),
   disposed |-> 0]

\* previousState.map(...): entries i.. of the snapshot become new records
\* with new meshes in the scene; the result is S with `objects` extended
RECURSIVE Rehydrate(_, _, _)
Rehydrate(S, previousState, i) ==
  IF i > Len(previousState) THEN S
  ELSE LET savedObj == previousState[i]
           m == NewHandle(DOMAIN S.mesh)
           r == NewHandle(DOMAIN S.rec)
           S1 == WithObject(S, r, m, RehydratedMesh(savedObj), savedObj.id,
                            savedObj.name, savedObj.type)
       IN Rehydrate([S1 EXCEPT !.scene = @ \cup {m}, !.objects = Append(@, r)],
                    previousState, i + 1)

\* undo without its early return, an empty stack read as an empty state
UndoUnguarded(S) ==
  LET previousState == IF Len(S.undoStack) = 0 THEN <<>> ELSE Last(S.undoStack)
      S1 == [S EXCEPT !.undoStack = DropLast(@),
                      !.history = IF @.on THEN [@ EXCEPT !.views = DropLast(@)]
                                  ELSE @,
                      !.scene = @ \ MeshesOf(S, S.objects)]
      S2 == Dispose(S1, S.objects)
      S3 == Rehydrate([S2 EXCEPT !.objects = <<>>], previousState, 1)
  IN [S3 EXCEPT !.selectedObject = Null, !.gizmo = Null]

\* undo with the `undoStack` and `objects` of its closure
Undo(S) ==
  IF Len(S.undoStack) = 0 THEN S
  ELSE LET previousState == Last(S.undoStack)
           S1 == [S EXCEPT !.undoStack = DropLast(@),
                           !.history = IF @.on THEN [@ EXCEPT !.views = DropLast(@)]
                                       ELSE @,
                           !.scene = @ \ MeshesOf(S, S.objects)]
           S2 == Dispose(S1, S.objects)
           S3 == Rehydrate([S2 EXCEPT !.objects = <<>>], previousState, 1)
       IN [S3 EXCEPT !.selectedObject = Null, !.gizmo = Null]

(* ----------------------------- clear scene ---------------------------- *)
\* clearScene after window.confirm answered confirmed
ClearScene(S, confirmed) ==
  IF ~ confirmed THEN S
  ELSE LET S1 == SaveUndoState(S, S.objects)
           S2 == Dispose([S1 EXCEPT !.scene = @ \ MeshesOf(S, S.objects)], S.objects)
       IN [S2 EXCEPT !.objects = <<>>, !.selectedObject = Null, !.gizmo = Null]

(* ------------------------------- import ------------------------------- *)
\* importModel(event) up to reader.readAsArrayBuffer: the snapshot is
\* pushed and the callbacks keep the closure of this render
ImportModel(S, hasFile) ==
  IF ~ hasFile THEN S
  ELSE [SaveUndoState(S, S.objects) EXCEPT
          !.imports = Append(@, [objects |-> S.objects, objectCounter |-> S.objectCounter])]

\* the mesh importModel adds for one mesh node of the parsed file
ImportedMesh(node) ==
  [position |-> <<0, 0, 0>>, rotation |-> <<0, 0, 0>>, scale |-> <<100, 100, 100>>,
   color |-> node.color,
   metalness |-> IF node.standard THEN node.metalness ELSE DefaultMetalness,
   roughness |-> IF node.standard THEN node.roughness ELSE DefaultRoughness,
   opacity |-> 100, transparent |-> FALSE, emissive |-> 0,
   emissiveIntensity |-> 100, wireframe |-> FALSE, visible |-> TRUE,
   geometry |-> "Imported", disposed |-> 0]

\* gltf.scene.traverse(...): nodes i.. of the file; acc collects newObjects
RECURSIVE Traverse(_, _, _, _, _)
Traverse(S, nodes, i, counter, acc) ==
  IF i > Len(nodes) THEN [S |-> S, newObjects |-> acc, thrown |-> FALSE]
  ELSE IF ~ nodes[i].isMesh THEN Traverse(S, nodes, i + 1, counter, acc)
  \* mesh.material.isMeshStandardMaterial of an undefined material throws
  ELSE IF ~ nodes[i].material THEN [S |-> S, newObjects |-> acc, thrown |-> TRUE]
  ELSE LET m == NewHandle(DOMAIN S.mesh)
           r == NewHandle(DOMAIN S.rec)
           id == GenerateId(S)
           name == IF nodes[i].named
                   THEN [base |-> "Node", n |-> i, copies |-> 0]
                   ELSE [base |-> "Imported", n |-> counter, copies |-> 0]
           S1 == WithObject(S, r, m, ImportedMesh(nodes[i]), id, name, "imported")
       IN Traverse([S1 EXCEPT !.scene = @ \cup {m}, !.nextId = id],
                   nodes, i + 1, counter, Append(acc, r))

\* the success callback of loader.parse for the k-th import in flight; an
\* exception in the traverse callback ends the callback before setObjects
ImportLoaded(S, k, nodes) ==
  LET closure == S.imports[k]
      S0 == [S EXCEPT !.imports = SubSeq(@, 1, k - 1) \o SubSeq(@, k + 1, Len(@))]
      t == Traverse(S0, nodes, 1, closure.objectCounter, <<>>)
      S1 == [t.S EXCEPT !.objects = @ \o t.newObjects,
                        !.objectCounter = @ + Len(t.newObjects)]
  IN IF t.thrown THEN t.S
     ELSE IF Len(t.newObjects) > 0
     THEN SelectObject(S1, closure.objects, t.newObjects[1], FALSE)
     ELSE S1

\* the mesh nodes of a file that have a material
ValidMeshNodes(nodes) == Len(SelectSeq(nodes, LAMBDA n : n.isMesh /\ n.material))

\* an error callback that puts back the registry of importModel's closure
ImportFailedRestoring(S, k) ==
  [S EXCEPT !.imports = SubSeq(@, 1, k - 1) \o SubSeq(@, k + 1, Len(@)),
            !.objects = S.imports[k].objects]

\* the error callback of loader.parse: console.error and alert
ImportFailed(S, k) ==
  [S EXCEPT !.imports = SubSeq(@, 1, k - 1) \o SubSeq(@, k + 1, Len(@))]

(* ------------------------------- export ------------------------------- *)
\* exportScene's forEach from object i on: mesh.clone() with a clone of
\* its material, added to the temporary group and to nothing else
RECURSIVE ExportClones(_, _)
ExportClones(S, i) ==
  IF i > Len(S.objects) THEN S
  ELSE LET c == NewHandle(DOMAIN S.mesh)
           clone == [S.mesh[MeshOf(S, S.objects[i])] EXCEPT !.disposed = 0]
       IN ExportClones([S EXCEPT !.mesh = [h \in DOMAIN S.mesh \cup {c} |->
                                            IF h = c THEN clone ELSE S.mesh[h]]],
                       i + 1)

\* exportScene: the group of clones is handed to exporter.parse, whose
\* callbacks download the blob or alert; neither touches the editor state
ExportScene(S) == ExportClones(S, 1)

(* -------------------------------- snap -------------------------------- *)
\* a new TransformControls: translationSnap, rotationSnap and scaleSnap null
NoSnap == [translation |-> Null, rotation |-> Null, scale |-> Null]

\* Math.round(a / b) for b > 0: the nearest integer, a half rounding up
Round(a, b) == (2 * a + b) \div (2 * b)

\* Math.floor(a / b) for b > 0
Floor(a, b) == a \div b

\* snapToGrid with Math.floor in the place of Math.round
SnapToGridFloor(S, value) ==
  IF ~ S.snapEnabled \/ S.snapSize <= 0 THEN value
  ELSE Floor(value, S.snapSize) * S.snapSize

\* snapToGrid(value) with the `snapEnabled` and `snapSize` of its closure
SnapToGrid(S, value) ==
  IF ~ S.snapEnabled \/ S.snapSize <= 0 THEN value
  ELSE Round(value, S.snapSize) * S.snapSize

\* toggleSnap with the `snapSize` of its closure
ToggleSnap(S) ==
  LET newValue == ~ S.snapEnabled
  IN [S EXCEPT !.gizmoSnap =
                 [translation |-> IF newValue THEN S.snapSize ELSE Null,
                  rotation |-> IF newValue THEN DegToRad(RotationSnapDegrees) ELSE Null,
                  scale |-> IF newValue THEN ScaleSnap ELSE Null],
               !.snapEnabled = newValue]

\* updateSnapSize without its setTranslationSnap(newSize)
UpdateSnapSizeStateOnly(S, size) ==
  [S EXCEPT !.snapSize = OrElse(ParseFloat(size), DefaultSnapSize)]

\* updateSnapSize(size) with the `snapEnabled` of its closure
UpdateSnapSize(S, size) ==
  LET newSize == OrElse(ParseFloat(size), DefaultSnapSize)
      S1 == [S EXCEPT !.snapSize = newSize]
  IN IF S.snapEnabled THEN [S1 EXCEPT !.gizmoSnap.translation = newSize] ELSE S1

(* -------------------------------- gizmo ------------------------------- *)
\* TransformControls, its snaps off, moves, turns or scales its object
\* along x by delta and fires objectChange:
\* setSelectedObject(prev => prev ? {...prev} : null)
GizmoChange(S, delta) ==
  LET m == S.mesh[S.gizmo]
      moved == CASE S.transformMode = "translate" ->
                      [m EXCEPT !.position[1] = @ + delta]
                 [] S.transformMode = "rotate" ->
                      [m EXCEPT !.rotation[1] = @ + delta]
                 [] OTHER -> [m EXCEPT !.scale[1] = @ + delta]
      S1 == [S EXCEPT !.mesh[S.gizmo] = moved, !.fuel = @ - 1]
  IN IF S.selectedObject = Null THEN S1 ELSE CopyPrimary(S1)

(* ------------------------------ dragging ------------------------------ *)
\* a 'dragging-changed' listener that leaves the orbit controls alone
DraggingChangedIgnored(S, value) == S

\* the 'dragging-changed' listener: orbitControls.enabled = !event.value
DraggingChanged(S, value) == [S EXCEPT !.orbitEnabled = ~ value]

\* the gizmo sets its dragging property on pointer down and pointer up and
\* dispatches 'dragging-changed' with the new value
SetDragging(S, value) == DraggingChanged([S EXCEPT !.dragging = value], value)

\* handleViewportClick: hit is the object the ray meets first, or Null
HandleViewportClick(S, hit, ctrl) ==
  IF S.dragging THEN [S |-> S, op |-> "none"]
  ELSE [S |-> SelectObject(S, S.objects, hit, IF hit = Null THEN FALSE ELSE ctrl),
        op |-> "selectObject"]

(* ------------------------------ keyboard ------------------------------ *)
\* handleKeyDown past its first line: the state it leaves and the
\* operation it ran
KeyDown(S, key, ctrl) ==
  CASE key = "t" -> [S |-> [S EXCEPT !.transformMode = "translate"], op |-> "setTransformMode"]
    [] key = "r" -> [S |-> [S EXCEPT !.transformMode = "rotate"], op |-> "setTransformMode"]
    [] key = "s" /\ ~ ctrl ->
         [S |-> [S EXCEPT !.transformMode = "scale"], op |-> "setTransformMode"]
    [] key \in {"delete", "backspace"} ->
         IF Len(S.selectedObjects) > 1
         THEN [S |-> DeleteSelectedObjects(S), op |-> "deleteSelectedObjects"]
         ELSE IF S.selectedObject # Null
         THEN [S |-> DeleteObject(S, S.selectedObject), op |-> "deleteObject"]
         ELSE [S |-> S, op |-> "none"]
    [] key = "d" /\ ctrl /\ S.selectedObject # Null ->
         [S |-> DuplicateObject(S, S.selectedObject), op |-> "duplicateObject"]
    [] key = "a" /\ ctrl -> [S |-> SelectAllObjects(S), op |-> "selectAllObjects"]
    [] key = "escape" -> [S |-> SelectObject(S, S.objects, Null, FALSE), op |-> "selectObject"]
    [] key = "z" /\ ctrl -> [S |-> Undo(S), op |-> "undo"]
    [] OTHER -> [S |-> S, op |-> "none"]

\* handleKeyDown without `if (event.target.tagName === 'INPUT') return`
HandleKeyDownAnywhere(S, tagName, key, ctrl) == KeyDown(S, key, ctrl)

\* handleKeyDown(event) for event.target.tagName, event.key, event.ctrlKey
HandleKeyDown(S, tagName, key, ctrl) ==
  IF tagName = "INPUT" THEN [S |-> S, op |-> "none"]
  ELSE KeyDown(S, key, ctrl)

(* ----------------------- createParametricGeometry ---------------------- *)
\* no call of createParametricGeometry is running
NoCall == [phase |-> "idle", slices |-> 0, stacks |-> 0, i |-> 0, j |-> 0,
           vertices |-> <<>>, indices |-> <<>>]

\* createParametricGeometry(func, slices, stacks) at its first loop
Called(slices, stacks) ==
  [phase |-> "vertices", slices |-> slices, stacks |-> stacks, i |-> 0, j |-> 0,
   vertices |-> <<>>, indices |-> <<>>]

\* one pass of the inner vertex loop: the vertex of func(j / slices,
\* i / stacks), kept as its place [u, v] in the grid; its normal and uv
\* go to arrays of their own at the same position
VertexPass(P) ==
  LET P1 == [P EXCEPT !.vertices = Append(@, [u |-> P.j, v |-> P.i])]
  IN IF P.j < P.slices THEN [P1 EXCEPT !.j = @ + 1]
     ELSE IF P.i < P.stacks THEN [P1 EXCEPT !.i = @ + 1, !.j = 0]
     ELSE [P1 EXCEPT !.phase = "indices", !.i = 0, !.j = 0]

\* the indices of cell (i, j) with its second triangle pushed as b, d, c
CellTrianglesFlipped(i, j, sliceCount) ==
  LET a == i * sliceCount + j
      b == i * sliceCount + j + 1
      c == (i + 1) * sliceCount + j + 1
      d == (i + 1) * sliceCount + j
  IN <<a, b, d, b, d, c>>

\* indices.push(a, b, d); indices.push(b, c, d) for cell (i, j)
CellTriangles(i, j, sliceCount) ==
  LET a == i * sliceCount + j
      b == i * sliceCount + j + 1
      c == (i + 1) * sliceCount + j + 1
      d == (i + 1) * sliceCount + j
  IN <<a, b, d, b, c, d>>

\* one pass of the inner index loop
IndexPass(P) ==
  LET P1 == [P EXCEPT !.indices = @ \o CellTriangles(P.i, P.j, P.slices + 1)]
  IN IF P.j < P.slices - 1 THEN [P1 EXCEPT !.j = @ + 1]
     ELSE IF P.i < P.stacks - 1 THEN [P1 EXCEPT !.i = @ + 1, !.j = 0]
     ELSE [P1 EXCEPT !.phase = "done"]

(* ------------------------------ HomePage ------------------------------ *)
\* the scroll callback closes over no event
NoEvent == [clientX |-> 0, clientY |-> 0]

\* HomePage after its mount effects: handleScroll() has run once
HomeMounted ==
  [now |-> MountTime,
   frames |-> <<[handler |-> "scroll", e |-> NoEvent]>>,
   mouseRaf |-> Null, mouseLast |-> 0,
   mousePosition |-> [x |-> 0, y |-> 0],
   cursorPosition |-> [x |-> 0, y |-> 0],
   scrollRaf |-> 1, scrollLast |-> 0, scrollY |-> 0,
   showScrollTop |-> FALSE, scrollProgress |-> 0,
   pointer |-> [x |-> 0, y |-> 0],
   updates |-> [mouse |-> 0, scroll |-> 0],
   budget |-> MaxEvents]

\* handleMouseMove without `if (rafId) return`
HandleMouseMoveEach(H, e) ==
  [H EXCEPT !.mouseRaf = Len(H.frames) + 1,
            !.frames = Append(@, [handler |-> "mouse", e |-> e])]

\* handleMouseMove(e): requestAnimationFrame unless a callback is pending
HandleMouseMove(H, e) ==
  IF H.mouseRaf # Null THEN H
  ELSE [H EXCEPT !.mouseRaf = Len(H.frames) + 1,
                 !.frames = Append(@, [handler |-> "mouse", e |-> e])]

\* handleScroll(): requestAnimationFrame unless a callback is pending
HandleScroll(H) ==
  IF H.scrollRaf # Null THEN H
  ELSE [H EXCEPT !.scrollRaf = Len(H.frames) + 1,
                 !.frames = Append(@, [handler |-> "scroll", e |-> NoEvent])]

\* the animation-frame callback of handleMouseMove for its event e;
\* positions in px, mousePosition in hundredths
MouseFrame(H, e) ==
  LET H1 == IF H.now - H.mouseLast >= MouseThrottleMs
            THEN [H EXCEPT !.mousePosition =
                              [x |-> (e.clientX * 2000) \div InnerWidth - 1000,
                               y |-> (e.clientY * 2000) \div InnerHeight - 1000],
                           !.cursorPosition = [x |-> e.clientX, y |-> e.clientY],
                           !.mouseLast = H.now,
                           !.updates.mouse = @ + 1]
            ELSE H
  IN [H1 EXCEPT !.mouseRaf = Null]

\* the animation-frame callback of handleScroll; scrollProgress in percent
ScrollFrame(H) ==
  LET H1 == IF H.now - H.scrollLast >= ScrollThrottleMs
            THEN [H EXCEPT !.showScrollTop = (H.scrollY > ShowTopAfter),
                           !.scrollProgress = (H.scrollY * 100) \div WindowHeight,
                           !.scrollLast = H.now,
                           !.updates.scroll = @ + 1]
            ELSE H
  IN [H1 EXCEPT !.scrollRaf = Null]

\* the browser runs the callbacks requested before this frame, from i on
RECURSIVE RunFrames(_, _, _)
RunFrames(H, callbacks, i) ==
  IF i > Len(callbacks) THEN H
  ELSE RunFrames(IF callbacks[i].handler = "mouse"
                 THEN MouseFrame(H, callbacks[i].e)
                 ELSE ScrollFrame(H),
                 callbacks, i + 1)

(* ------------------------------ handlers ------------------------------ *)
\* the mount effect's setTimeout(() => addPrimitive('cube'), 100): it runs
\* the addPrimitive of the first render, whose objects is [] and whose
\* objectCounter is 0
MountTimer ==
  /\ timerPending
  /\ \E color \in RandomColors :
       Commit(AddPrimitive([St EXCEPT !.timerPending = FALSE], <<>>, 0, "cube", color),
              "addPrimitive")

\* a click on the Add button of one of kinds
AddClickOf(kinds) ==
  \E type \in kinds, color \in RandomColors :
    Commit(AddPrimitive(St, objects, objectCounter, type, color), "addPrimitive")

\* a click on one of the Add buttons
AddClick == AddClickOf(AddKinds)

\* a click on the Add button of the sphere
AddSphereClick == AddClickOf({"sphere"})

\* addPrimitive called with one of ShapeKinds
AddShape == AddClickOf(ShapeKinds)

\* a click on a row of the object list: selectObject(obj, ctrlKey || metaKey)
RowClick ==
  \E i \in 1..Len(objects), ctrl \in BOOLEAN :
    Step(SelectObject(St, objects, objects[i], ctrl), "selectObject",
         [NoArg EXCEPT !.id = rec[objects[i]].id, !.add = ctrl])

\* handleViewportClick: the ray hits a visible mesh of objects, or nothing
ViewportClick ==
  \E hit \in {r \in Range(objects) : mesh[rec[r].mesh].visible} \cup {Null},
     ctrl \in BOOLEAN :
    LET c == HandleViewportClick(St, hit, ctrl)
    IN Step(c.S, c.op,
            IF hit = Null THEN [NoArg EXCEPT !.target = "DIV"]
            ELSE [NoArg EXCEPT !.id = rec[hit].id, !.add = ctrl, !.target = "DIV"])

\* one of keys pressed outside an input field
KeyPressOf(keys) ==
  \E key \in keys, ctrl \in BOOLEAN :
    LET k == KeyDown(St, key, ctrl)
    IN Step(k.S, k.op, IF k.op = "undo" THEN [NoArg EXCEPT !.after = lastOp] ELSE NoArg)

\* a key pressed while an input field or the page body has the focus
FocusKey ==
  \E tagName \in KeyTargets, key \in AllKeys, ctrl \in BOOLEAN :
    LET k == HandleKeyDown(St, tagName, key, ctrl)
    IN Step(k.S, k.op, [NoArg EXCEPT !.target = tagName, !.key = key,
                                     !.after = IF k.op = "undo" THEN lastOp ELSE ""])

\* Delete, Ctrl+A or Escape
SelectionKey == KeyPressOf(Keys \ {"d", "z"})

\* Ctrl+Z or plain Z
UndoKey == KeyPressOf({"z"})

\* Ctrl+D or plain D
DuplicateKey == KeyPressOf({"d"})

\* the Delete button of a row of the object list
RowDelete ==
  \E i \in 1..Len(objects) :
    Commit(DeleteObject(St, objects[i]), "deleteObject")

\* the Delete Object button of the properties panel
PanelDelete ==
  /\ selectedObject # Null
  /\ Commit(DeleteObject(St, selectedObject), "deleteObject")

\* the Duplicate Object button of the properties panel
PanelDuplicate ==
  /\ selectedObject # Null
  /\ Commit(DuplicateObject(St, selectedObject), "duplicateObject")

\* the visibility button of a row of the object list
RowVisibility ==
  \E i \in 1..Len(objects) :
    Commit(ToggleVisibility(St, objects[i]), "toggleVisibility")

\* an input of the properties panel changes
PropertyEdit ==
  /\ selectedObject # Null
  /\ \E property \in DOMAIN EditInputs :
       \E value \in EditInputs[property] :
         Step(UpdateObjectProperty(St, property, value), "updateObjectProperty",
              [NoArg EXCEPT !.property = property, !.value = value])

\* a Uniform Size preset button, or the Decrease Size or Increase Size
\* button, which step scale.x by 0.1 within [0.1, 10]
UniformScaleClick ==
  /\ selectedObject # Null
  /\ \E newScale \in ScalePresets
                     \cup {Max(10, mesh[rec[selectedObject].mesh].scale[1] - 10),
                           Min(1000, mesh[rec[selectedObject].mesh].scale[1] + 10)} :
       Step(UniformScale(St, newScale), "uniformScale",
            [NoArg EXCEPT !.value = Num(newScale)])

\* the Snap button
SnapClick == Commit(ToggleSnap(St), "toggleSnap")

\* the Snap Size input, with the text typed into it
SnapSizeChange ==
  \E size \in SnapSizeInputs :
    Step(UpdateSnapSize(St, size), "updateSnapSize", [NoArg EXCEPT !.value = size])

\* snapToGrid applied to a value
SnapValue ==
  \E value \in SnapValues :
    Step(St, "snapToGrid",
         [NoArg EXCEPT !.value = Num(value), !.result = SnapToGrid(St, value)])

\* a text typed into a transform field of the properties panel
TypedEdit ==
  /\ selectedObject # Null
  /\ \E property \in DOMAIN TypedInputs :
       \E value \in TypedInputs[property] :
         Step(UpdateObjectProperty(St, property, value), "updateObjectProperty",
              [NoArg EXCEPT !.property = property, !.value = value])

\* the Undo button, disabled while the stack is empty
UndoClick ==
  /\ Len(undoStack) > 0
  /\ Step(Undo(St), "undo", [NoArg EXCEPT !.after = lastOp])

\* the Clear Scene button and the answer to its confirm dialog
ClearClick ==
  \E confirmed \in BOOLEAN :
    Commit(ClearScene(St, confirmed), IF confirmed THEN "clearScene" ELSE "none")

\* a file chosen in the Import input
ImportChoose ==
  /\ Len(imports) < MaxImports
  /\ Commit(ImportModel(St, TRUE), "importModel")

\* a file chosen in the Import input, whatever is in flight
ImportRequest == Commit(ImportModel(St, TRUE), "importModel")

\* the read and parse of an import in flight succeed
ImportDone ==
  \E k \in 1..Len(imports), nodes \in ImportFiles :
    Commit(ImportLoaded(St, k, nodes), "importLoaded")

\* the read and parse of a file of several nodes succeed
ImportBlobDone ==
  \E k \in 1..Len(imports), nodes \in BlobFiles :
    Step(ImportLoaded(St, k, nodes), "importLoaded",
         [NoArg EXCEPT !.result = ValidMeshNodes(nodes)])

\* the parse of an import in flight fails
ImportError ==
  \E k \in 1..Len(imports) :
    Step(ImportFailed(St, k), "importFailed",
         [NoArg EXCEPT !.alert = "Failed to import model"])

\* a click on Export; the exporter ends in its done or its error callback
ExportClick ==
  \E failed \in BOOLEAN :
    Step(ExportScene(St), IF failed THEN "exportFailed" ELSE "exportScene",
         [NoArg EXCEPT !.alert = IF failed THEN "Failed to export scene" ELSE ""])

\* a drag step of the gizmo
GizmoDrag ==
  /\ gizmo # Null
  /\ gizmoSnap = NoSnap
  /\ \E delta \in DragDeltas : Commit(GizmoChange(St, delta), "gizmoDrag")

\* the pointer goes down on a handle of the gizmo
GizmoPointerDown ==
  /\ gizmo # Null
  /\ ~ dragging
  /\ Commit(SetDragging(St, TRUE), "dragStart")

\* a drag step while the pointer is down
DragMove == dragging /\ GizmoDrag

\* the pointer goes up after a drag
GizmoPointerUp ==
  /\ dragging
  /\ Commit(SetDragging(St, FALSE), "dragEnd")

\* createParametricGeometry is called
ParametricCall ==
  /\ parametric.phase \in {"idle", "done"}
  /\ \E slices \in 1..MaxSlices, stacks \in 1..MaxStacks :
       parametric' = Called(slices, stacks)
  /\ UNCHANGED <<editor, home>>

\* a pass of the vertex loop
VertexStep ==
  /\ parametric.phase = "vertices"
  /\ parametric' = VertexPass(parametric)
  /\ UNCHANGED <<editor, home>>

\* a pass of the index loop
IndexStep ==
  /\ parametric.phase = "indices"
  /\ parametric' = IndexPass(parametric)
  /\ UNCHANGED <<editor, home>>

\* a mousemove event on the window of HomePage
MouseMove ==
  /\ home.budget > 0
  /\ \E e \in Pointers :
       home' = [HandleMouseMove(home, e) EXCEPT
                  !.pointer = [x |-> e.clientX, y |-> e.clientY],
                  !.budget = @ - 1]
  /\ UNCHANGED <<editor, parametric>>

\* a scroll event on the window of HomePage
Scroll ==
  /\ home.budget > 0
  /\ \E y \in ScrollYs :
       home' = [HandleScroll([home EXCEPT !.scrollY = y]) EXCEPT !.budget = @ - 1]
  /\ UNCHANGED <<editor, parametric>>

\* an animation frame with callbacks to run
Frame ==
  /\ home.frames # <<>>
  /\ \E gap \in FrameGaps :
       home' = RunFrames([home EXCEPT !.now = @ + gap, !.frames = <<>>,
                                      !.updates = [mouse |-> 0, scroll |-> 0]],
                         home.frames, 1)
  /\ UNCHANGED <<editor, parametric>>

\* an animation frame with no callback to run
IdleFrame ==
  /\ home.frames = <<>>
  /\ home.budget > 0
  /\ \E gap \in FrameGaps :
       home' = [home EXCEPT !.now = @ + gap, !.budget = @ - 1,
                            !.updates = [mouse |-> 0, scroll |-> 0]]
  /\ UNCHANGED <<editor, parametric>>

(* ------------------------------- initial ------------------------------ *)
\* the state after the first render and the mount effect
Mounted ==
  /\ rec = <<>>
  /\ mesh = <<>>
  /\ objects = <<>>
  /\ selectedObject = Null
  /\ selectedObjects = <<>>
  /\ undoStack = <<>>
  /\ objectCounter = 0
  /\ scene = {}
  /\ gizmo = Null
  /\ nextId = 0
  /\ timerPending = TRUE
  /\ imports = <<>>
  /\ transformMode = "translate"
  /\ snapEnabled = FALSE
  /\ snapSize = DefaultSnapSize
  /\ gizmoSnap = NoSnap
  /\ dragging = FALSE
  /\ orbitEnabled = TRUE
  /\ home = HomeMounted
  /\ parametric = NoCall
  /\ lastOp = "mount"
  /\ lastArg = NoArg

Init ==
  /\ Mounted
  /\ history = [on |-> FALSE, views |-> <<>>]
  /\ fuel = MaxFuel

InitEdit ==
  /\ Mounted
  /\ history = [on |-> TRUE, views |-> <<>>]
  /\ fuel = EditFuel

InitBound ==
  /\ Mounted
  /\ history = [on |-> TRUE, views |-> <<>>]
  /\ fuel = BoundFuel

(* --------------------------- specifications --------------------------- *)
\* object lifecycle and selection
Next ==
  \/ MountTimer
  \/ AddClick
  \/ RowClick
  \/ SelectionKey
  \/ UndoKey
  \/ RowDelete
  \/ PanelDelete
  \/ UndoClick
  \/ ClearClick

Spec == Init /\ [][Next]_vars

\* select, toggle-select, select(null), select-all and the two deletes
SelNext ==
  \/ MountTimer
  \/ AddClick
  \/ RowClick
  \/ ViewportClick
  \/ SelectionKey
  \/ RowDelete
  \/ PanelDelete

SelSpec == Init /\ [][SelNext]_vars

\* add, duplicate, import, delete and undo
IoNext ==
  \/ MountTimer
  \/ AddClick
  \/ PanelDuplicate
  \/ RowDelete
  \/ UndoKey
  \/ ImportChoose
  \/ ImportDone
  \/ ImportError

IoSpec == Init /\ [][IoNext]_vars

\* the property editor, the gizmo and undo
EditNext ==
  \/ MountTimer
  \/ RowClick
  \/ PropertyEdit
  \/ RowVisibility
  \/ GizmoDrag
  \/ PanelDuplicate
  \/ DuplicateKey
  \/ PanelDelete
  \/ UndoClick

EditSpec == InitEdit /\ [][EditNext]_vars

\* a cube and a sphere, moved, deleted and restored
RestoreNext ==
  \/ MountTimer
  \/ AddSphereClick
  \/ RowClick
  \/ GizmoDrag
  \/ PanelDelete
  \/ SelectionKey
  \/ UndoClick

RestoreSpec == InitEdit /\ [][RestoreNext]_vars

\* the Uniform Size controls and undo
ScaleNext ==
  \/ MountTimer
  \/ AddSphereClick
  \/ RowClick
  \/ UniformScaleClick
  \/ UndoClick

ScaleSpec == InitEdit /\ [][ScaleNext]_vars

\* the snap controls and the snap function
SnapNext ==
  \/ MountTimer
  \/ SnapClick
  \/ SnapSizeChange
  \/ SnapValue

SnapSpec == Init /\ [][SnapNext]_vars

\* typed transform fields, with snap on or off
TypedNext ==
  \/ MountTimer
  \/ AddSphereClick
  \/ RowClick
  \/ SnapClick
  \/ TypedEdit

TypedSpec == Init /\ [][TypedNext]_vars

\* shapes of several kinds added, deleted and restored
KindNext ==
  \/ MountTimer
  \/ AddShape
  \/ RowDelete
  \/ UndoClick

KindSpec == InitEdit /\ [][KindNext]_vars

\* files of several nodes imported
BlobNext ==
  \/ MountTimer
  \/ AddClick
  \/ RowDelete
  \/ ImportChoose
  \/ ImportBlobDone
  \/ UndoClick

BlobSpec == InitEdit /\ [][BlobNext]_vars

\* files chosen one after the other
RaceNext ==
  \/ MountTimer
  \/ ImportRequest
  \/ ImportDone
  \/ ImportError
  \/ UndoClick

RaceSpec == Init /\ [][RaceNext]_vars

\* the keyboard with and without a focused field
KeyNext ==
  \/ MountTimer
  \/ FocusKey

KeySpec == Init /\ [][KeyNext]_vars

\* gizmo drags and clicks in the viewport
DragNext ==
  \/ MountTimer
  \/ AddClick
  \/ GizmoPointerDown
  \/ DragMove
  \/ GizmoPointerUp
  \/ ViewportClick

DragSpec == Init /\ [][DragNext]_vars

\* createParametricGeometry for every slices and stacks
ParametricNext ==
  \/ ParametricCall
  \/ VertexStep
  \/ IndexStep

ParametricSpec == Init /\ [][ParametricNext]_vars

\* HomePage: mouse moves, scrolls and animation frames
HomeNext ==
  \/ MouseMove
  \/ Scroll
  \/ Frame
  \/ IdleFrame

HomeSpec == Init /\ [][HomeNext]_vars

\* HomePage where the browser runs every requested animation frame
HomeLiveSpec == HomeSpec /\ WF_vars(Frame)

\* imports that fail and exports
CodecNext ==
  \/ MountTimer
  \/ AddClick
  \/ ImportChoose
  \/ ImportError
  \/ ExportClick

CodecSpec == Init /\ [][CodecNext]_vars

\* the undo stack filled past its capacity
BoundNext ==
  \/ MountTimer
  \/ ClearClick
  \/ UndoClick

BoundSpec == InitBound /\ [][BoundNext]_vars

(* ------------------------------ properties ---------------------------- *)
LiveIds == {rec[objects[i]].id : i \in 1..Len(objects)}

SelectedIds == {rec[selectedObjects[i]].id : i \in 1..Len(selectedObjects)}

\* C1: after select, toggle-select, select(null), select-all and delete
\* calls, the primary is a member of the selection set whenever the set is
\* not empty, and the gizmo is attached exactly when the set is not empty
SelectionInvariant ==
  /\ Len(selectedObjects) > 0 =>
       /\ selectedObject # Null
       /\ rec[selectedObject].id \in SelectedIds
  /\ gizmo # Null <=> Len(selectedObjects) > 0

\* the operations that call saveUndoState before they change the registry
SnapshotOps == {"addPrimitive", "deleteObject", "deleteSelectedObjects",
                "duplicateObject", "clearScene"}

\* C2: an undo right after a snapshot and a mutation restores every field
\* of every object, and the live ids, to their values before the mutation
UndoRoundTrip ==
  [][(/\ lastOp \in SnapshotOps
      /\ lastOp' = "undo"
      /\ Len(undoStack') < Len(undoStack))
     => FullView(St', objects') = Last(history.views)]_vars

\* C3: the undo stack never holds more than 20 snapshots; it holds the
\* most recently pushed snapshots that were not undone, in push order, and
\* while nothing was undone it holds min(20, pushes) of them
UndoBound ==
  LET n == Len(undoStack)
      views == history.views
  IN /\ n <= UndoCapacity
     /\ n <= Len(views)
     /\ undoStack = [i \in 1..n |->
          [j \in 1..Len(views[Len(views) - n + i]) |->
             Saved(views[Len(views) - n + i][j])]]
     /\ Len(views) = BoundFuel - fuel => n = Min(UndoCapacity, BoundFuel - fuel)

\* more than 20 pushes, the oldest evicted, a non-empty snapshot kept
UndoBoundWitness ==
  /\ Len(history.views) > UndoCapacity
  /\ Len(undoStack) = UndoCapacity
  /\ \E i \in 1..Len(undoStack) : Len(undoStack[i]) > 0
  /\ Len(history.views[1]) = 0

\* C4: after an undo that pops a snapshot there is no primary selection,
\* the multi-selection is empty and the gizmo is detached
UndoClearsSelection ==
  [][Len(undoStack') < Len(undoStack) =>
       /\ selectedObject' = Null
       /\ selectedObjects' = <<>>
       /\ gizmo' = Null]_vars

\* C5: no mesh has its geometry and material disposed more than once
DisposedOnce == \A m \in DOMAIN mesh : mesh[m].disposed <= 1

\* C6: the user meshes in the scene are exactly the meshes of the objects
\* of the registry, one mesh per object
SceneIsRegistry ==
  /\ scene = {rec[objects[i]].mesh : i \in 1..Len(objects)}
  /\ \A i, j \in 1..Len(objects) :
       i # j => rec[objects[i]].mesh # rec[objects[j]].mesh

\* C7: the ids of the live objects are pairwise distinct
UniqueIds ==
  \A i, j \in 1..Len(objects) : i # j => rec[objects[i]].id # rec[objects[j]].id

\* an added object, its duplicate and an imported object live together
UniqueIdsWitness ==
  /\ Len(objects) >= 3
  /\ \E i \in 1..Len(objects) : rec[objects[i]].type = "imported"
  /\ \E i \in 1..Len(objects) : rec[objects[i]].name.copies > 0

\* the operations the claim lists as changing the registry
MutatingOps == SnapshotOps \cup {"importModel", "updateObjectProperty",
                                 "toggleVisibility", "gizmoDrag"}

\* C8: every action that changes the registry pushes a snapshot of the
\* registry as it was before the action
SnapshotBeforeMutation ==
  [][lastOp' \in MutatingOps =>
       undoStack' = PushBounded(undoStack,
                      [i \in 1..Len(objects) |-> SavedObject(St, objects[i])])]_vars

\* C9: a delete removes the deleted objects from the selection set and from
\* the primary in the same step, and detaches the gizmo when the set
\* became empty
DeleteUpdatesSelection ==
  [][lastOp' \in {"deleteObject", "deleteSelectedObjects"} =>
       LET deleted == LiveIds \ LiveIds'
       IN /\ SelectedIds' \cap deleted = {}
          /\ selectedObject' # Null => rec'[selectedObject'].id \notin deleted
          /\ (Len(selectedObjects) > 0 /\ Len(selectedObjects') = 0) => gizmo' = Null]_vars

\* the primary of a multi-selection was deleted and other members remain
DeleteUpdatesSelectionWitness ==
  /\ lastOp = "deleteObject"
  /\ selectedObject = Null
  /\ Len(selectedObjects) > 0
  /\ Len(objects) > 0

\* C10: undo with an empty undo stack changes nothing
UndoOnEmptyIsNoop ==
  [][(lastOp' = "undo" /\ Len(undoStack) = 0) =>
       UNCHANGED <<rec, mesh, objects, selectedObject, selectedObjects,
                   undoStack, objectCounter, scene, gizmo>>]_vars

\* an undo that left a primary selection in place: the stack was empty
UndoOnEmptyWitness ==
  /\ lastOp = "undo"
  /\ Len(undoStack) = 0
  /\ selectedObject # Null
  /\ Len(objects) > 0

\* the ids of the selection set in insertion order
SelectedIdSeq == [i \in 1..Len(selectedObjects) |-> rec[selectedObjects[i]].id]

\* C11: toggle-select(id) removes id when it is a member of the selection,
\* leaving no primary and no gizmo when the set became empty and otherwise
\* the last remaining member as primary; when id is not a member it is
\* appended and becomes the primary, with the gizmo on its mesh
ToggleSelect ==
  [][(lastOp' = "selectObject" /\ lastArg'.add /\ lastArg'.id # Null) =>
       LET id == lastArg'.id
           before == SelectedIdSeq
           after == SelectedIdSeq'
       IN IF id \in SelectedIds
          THEN /\ after = SelectSeq(before, LAMBDA x : x # id)
               /\ IF Len(after) = 0
                  THEN selectedObject' = Null /\ gizmo' = Null
                  ELSE /\ selectedObject' # Null
                       /\ rec'[selectedObject'].id = Last(after)
                       /\ gizmo' = rec'[selectedObject'].mesh
          ELSE /\ after = Append(before, id)
               /\ selectedObject' # Null
               /\ rec'[selectedObject'].id = id
               /\ gizmo' = rec'[selectedObject'].mesh]_vars

\* a toggle took a member out of a selection of three: two remain
ToggleSelectWitness ==
  /\ lastOp = "selectObject"
  /\ lastArg.add
  /\ lastArg.id \in LiveIds \ SelectedIds
  /\ Len(selectedObjects) = 2

\* C12: a plain select(id), from a click or from the add, duplicate or
\* import that selects its new object, leaves the selection set exactly
\* <<id>> with id as primary, the gizmo on the highlighted mesh of id, and
\* no highlight on any other object that was selected before
PlainSelect ==
  [][LET clicked == lastOp' = "selectObject" /\ ~ lastArg'.add /\ lastArg'.id # Null
         selectsNew == /\ lastOp' \in {"addPrimitive", "duplicateObject", "importLoaded"}
                       /\ Len(objects') > Len(objects)
     IN (clicked \/ selectsNew) =>
          LET id == IF clicked THEN lastArg'.id
                    ELSE rec'[objects'[Len(objects) + 1]].id
          IN /\ SelectedIdSeq' = <<id>>
             /\ selectedObject' # Null
             /\ rec'[selectedObject'].id = id
             /\ \E i \in 1..Len(objects') :
                  /\ rec'[objects'[i]].id = id
                  /\ gizmo' = rec'[objects'[i]].mesh
                  /\ mesh'[gizmo'].emissive = HighlightHex
             /\ \A i \in 1..Len(objects') :
                  (rec'[objects'[i]].id \in SelectedIds \ {id})
                    => mesh'[rec'[objects'[i]].mesh].emissive = 0]_vars

\* C13: select-all makes the selection set the live objects in registry
\* order, with the last of them as primary and gizmo target; on an empty
\* registry it leaves the empty selection, no primary and no gizmo
SelectAll ==
  [][lastOp' = "selectAllObjects" =>
       /\ SelectedIdSeq' = [i \in 1..Len(objects) |-> rec[objects[i]].id]
       /\ IF Len(objects) > 0
          THEN /\ selectedObject' # Null
               /\ rec'[selectedObject'].id = rec[Last(objects)].id
               /\ gizmo' = rec[Last(objects)].mesh
          ELSE /\ selectedObject' = Null
               /\ gizmo' = Null]_vars

\* the two delete operations
DeleteOps == {"deleteObject", "deleteSelectedObjects"}

\* C14: an undo directly after a delete restores the ids the registry held
\* before the delete, in order, and the id, name, position, rotation and
\* scale of every object of that registry, the deleted ones included
UndoAfterDelete ==
  [][(/\ lastOp \in DeleteOps
      /\ lastOp' = "undo"
      /\ Len(undoStack') < Len(undoStack)) =>
       LET before == Last(history.views)
           after == FullView(St', objects')
       IN /\ Len(after) = Len(before)
          /\ \A i \in 1..Len(before) :
               /\ after[i].id = before[i].id
               /\ after[i].name = before[i].name
               /\ after[i].position = before[i].position
               /\ after[i].rotation = before[i].rotation
               /\ after[i].scale = before[i].scale]_vars

\* the cube is back before the sphere after the undo of its delete
UndoAfterDeleteWitness ==
  /\ lastOp = "undo"
  /\ lastArg.after = "deleteObject"
  /\ Len(objects) = 2
  /\ rec[objects[1]].type = "cube"
  /\ rec[objects[2]].type = "sphere"
  /\ Len(undoStack) = 2

UniformScaleIsOneStep ==
  [][lastOp' = "uniformScale" =>
       LET v == lastArg'.value.val
       IN /\ mesh'[rec'[selectedObject'].mesh].scale = <<v, v, v>>
          /\ undoStack' = PushBounded(undoStack,
                             [i \in 1..Len(objects) |-> SavedObject(St, objects[i])])]_vars

\* C17: with snap enabled and a positive grid unit u, snapToGrid(v) is a
\* multiple of u and no multiple of u is nearer to v (1.23 gives 1.0 with
\* unit 0.5); with snap disabled or a unit that is not positive it is v
SnapRounding ==
  lastOp = "snapToGrid" =>
    LET v == lastArg.value.val
        r == lastArg.result
        u == snapSize
    IN IF snapEnabled /\ u > 0
       THEN /\ r % u = 0
            /\ \A m \in -200..200 :
                 m % u = 0 => (IF r >= v THEN r - v ELSE v - r)
                                <= (IF m >= v THEN m - v ELSE v - m)
            /\ (v = 123 /\ u = 50) => r = 100
       ELSE r = v

\* 1.23 snapped on the default grid of 0.5
SnapRoundingWitness ==
  /\ lastOp = "snapToGrid"
  /\ snapEnabled
  /\ snapSize = 50
  /\ lastArg.value.val = 123
  /\ lastArg.result = 100

\* C18: the gizmo's snaps match the editor state: with snap enabled the
\* translation snap is the grid unit, the rotation snap 15 degrees and the
\* scale snap 0.1; with snap disabled the three are off
GizmoSnapMatches ==
  gizmoSnap = IF snapEnabled
              THEN [translation |-> snapSize, rotation |-> 30, scale |-> 10]
              ELSE [translation |-> Null, rotation |-> Null, scale |-> Null]

\* the grid unit was changed from its default while snap was enabled
GizmoSnapMatchesWitness ==
  /\ lastOp = "updateSnapSize"
  /\ snapEnabled
  /\ snapSize = 10
  /\ gizmoSnap.translation = 10

\* the component of the primary's mesh a transform field edits
Component(m, property) ==
  CASE property \in {"positionX", "positionY", "positionZ"} -> m.position[Axis(property)]
    [] property \in {"rotationX", "rotationY", "rotationZ"} -> m.rotation[Axis(property)]
    [] OTHER -> m.scale[Axis(property)]

\* C19: a number v typed into a position, rotation or scale field becomes
\* the value of that component of the primary (in radians for a rotation),
\* with snap on or off, also when v is 0 in a scale field
TypedVerbatim ==
  [][(/\ lastOp' = "updateObjectProperty"
      /\ lastArg'.property \in DOMAIN TypedInputs
      /\ lastArg'.value.numeric) =>
       Component(mesh'[rec'[selectedObject'].mesh], lastArg'.property)
         = IF lastArg'.property = "rotationY" THEN DegToRad(lastArg'.value.val)
           ELSE lastArg'.value.val]_vars

\* C20: a text with no number typed into a transform field is not
\* rejected: the position or rotation component becomes 0, the scale
\* component 1, and no other component, mesh or registry entry changes
MalformedFallsBack ==
  [][(/\ lastOp' = "updateObjectProperty"
      /\ lastArg'.property \in DOMAIN TypedInputs
      /\ ~ lastArg'.value.numeric) =>
       LET h == rec[selectedObject].mesh
           property == lastArg'.property
       IN /\ objects' = objects
          /\ \A i \in 1..Len(objects) : rec'[objects[i]] = rec[objects[i]]
          /\ rec'[selectedObject'].mesh = h
          /\ mesh' = [mesh EXCEPT ![h] =
                 CASE property = "positionY" -> [@ EXCEPT !.position[2] = 0]
                   [] property = "rotationY" -> [@ EXCEPT !.rotation[2] = 0]
                   [] OTHER -> [@ EXCEPT !.scale[1] = 100]]]_vars

\* the height of the default cube, 0.5, fell back to 0 beside a sphere
MalformedFallsBackWitness ==
  /\ lastOp = "updateObjectProperty"
  /\ lastArg.property = "positionY"
  /\ ~ lastArg.value.numeric
  /\ Len(objects) = 2
  /\ rec[selectedObject].type = "cube"
  /\ mesh[rec[selectedObject].mesh].position = <<0, 0, 0>>

\* C21: addPrimitive with a kind outside its switch works as with a known
\* kind: one object is appended to the registry with a new id and is the
\* single selection with the gizmo on its mesh; its geometry is the unit
\* cube when the kind is unknown
AddUnknownKind ==
  [][lastOp' = "addPrimitive" =>
       LET n == Len(objects)
       IN /\ Len(objects') = n + 1
          /\ \A i \in 1..n : objects'[i] = objects[i]
          /\ LET new == objects'[n + 1]
             IN /\ rec'[new].id \notin LiveIds
                /\ rec'[new].mesh \in scene'
                /\ selectedObjects' = <<new>>
                /\ selectedObject' = new
                /\ gizmo' = rec'[new].mesh
                /\ rec'[new].type \notin SwitchKinds
                     => mesh'[rec'[new].mesh].geometry = "Box(1,1,1)"]_vars

\* an object of an unknown kind was added after the default cube
AddUnknownKindWitness ==
  /\ lastOp = "addPrimitive"
  /\ Len(objects) = 2
  /\ rec[objects[2]].type = "blob"
  /\ selectedObject = objects[2]

\* C22: undo makes one object per entry of the snapshot, with the stored
\* id and with the geometry that object had when the snapshot was taken
UndoRebuildsGeometry ==
  [][(lastOp' = "undo" /\ Len(undoStack') < Len(undoStack)) =>
       LET before == Last(history.views)
           after == FullView(St', objects')
       IN /\ Len(after) = Len(before)
          /\ \A i \in 1..Len(before) :
               /\ after[i].id = before[i].id
               /\ after[i].geometry = before[i].geometry]_vars

\* C23: a pushed snapshot is a copy: a step leaves the undo stack as it
\* was, pops its last snapshot, or pushes one snapshot (dropping the oldest
\* past the capacity); no step changes a value of a snapshot that stays
SnapshotsAreCopies ==
  [][\/ undoStack' = undoStack
     \/ undoStack # <<>> /\ undoStack' = DropLast(undoStack)
     \/ undoStack' # <<>> /\ undoStack' = PushBounded(undoStack, Last(undoStack'))]_vars

\* an edit has moved the object away from what a stored snapshot holds
SnapshotsAreCopiesWitness ==
  /\ lastOp = "updateObjectProperty"
  /\ undoStack # <<>>
  /\ selectedObject # Null
  /\ \E i \in 1..Len(Last(undoStack)) :
       /\ Last(undoStack)[i].id = rec[selectedObject].id
       /\ Last(undoStack)[i].position # mesh[rec[selectedObject].mesh].position

\* C24: a completed import adds one object of kind "imported" with a new
\* id for each mesh node of the file that is well formed, whatever the
\* other nodes of the file are
BestEffortImport ==
  [][lastOp' = "importLoaded" =>
       LET n == Len(objects)
       IN /\ Len(objects') = n + lastArg'.result
          /\ \A i \in 1..n : objects'[i] = objects[i]
          /\ \A i \in (n + 1)..Len(objects') :
               /\ rec'[objects'[i]].type = "imported"
               /\ rec'[objects'[i]].id \notin LiveIds
               /\ \A j \in (n + 1)..Len(objects') :
                    rec'[objects'[j]].id = rec'[objects'[i]].id => i = j]_vars

\* C25: a failed import and a failed export alert the user, and they and
\* a successful export leave the registry as it was: the same objects with
\* the same ids, names, kinds, transforms and materials
CodecFailureKeepsRegistry ==
  [][lastOp' \in {"importFailed", "exportFailed", "exportScene"} =>
       /\ objects' = objects
       /\ \A i \in 1..Len(objects) :
            /\ rec'[objects[i]] = rec[objects[i]]
            /\ mesh'[rec[objects[i]].mesh] = mesh[rec[objects[i]].mesh]
       /\ lastOp' \in {"importFailed", "exportFailed"} => lastArg'.alert # ""]_vars

\* an import failed after an object was added while it was in flight
CodecFailureKeepsRegistryWitness ==
  /\ lastOp = "importFailed"
  /\ lastArg.alert = "Failed to import model"
  /\ Len(objects) = 2

\* C26: one undo right after an import has completed removes the objects
\* of that import and nothing else (the files of this run hold one mesh
\* node, so the import added the last object of the registry)
UndoRemovesImportOnly ==
  [][(lastOp = "importLoaded" /\ lastOp' = "undo"
        /\ Len(undoStack') < Len(undoStack)) =>
       /\ Len(objects') = Len(objects) - 1
       /\ \A i \in 1..Len(objects') : rec'[objects'[i]].id = rec[objects[i]].id]_vars

\* C27: at most one import is in flight (chosen, its read or parse not
\* yet ended) at any time
ImportsSerialized == Len(imports) <= 1

\* C28: a key pressed while an input field has the focus changes neither
\* the gizmo mode, nor the registry, nor the selection, nor the undo stack
FocusedFieldKeys ==
  [][lastArg'.target = "INPUT" =>
       UNCHANGED <<transformMode, rec, mesh, objects, scene, selectedObject,
                   selectedObjects, gizmo, undoStack, objectCounter>>]_vars

\* Delete pressed in a field while an object is selected
FocusedFieldKeysWitness ==
  /\ lastArg.target = "INPUT"
  /\ lastArg.key = "delete"
  /\ selectedObject # Null
  /\ transformMode = "rotate"
  /\ undoStack # <<>>

\* the emissive colours the property editor sets in this model
UserEmissive == {v.val : v \in EditInputs.emissive}

\* the operations that only change the selection
SelectionOps == {"selectObject", "selectAllObjects"}

\* C29: a selection, a toggle, a select-all or a deselection leaves the
\* emissive colour an object got from the property editor as it is
EmissiveSurvivesSelection ==
  [][lastOp' \in SelectionOps =>
       \A i \in 1..Len(objects) :
         LET h == rec[objects[i]].mesh
         IN mesh[h].emissive \in UserEmissive => mesh'[h].emissive = mesh[h].emissive]_vars

\* C30: the orbit controls are enabled exactly when no gizmo drag is in
\* progress, and a click in the viewport during a drag leaves the
\* selection, the gizmo and the highlights as they were
OrbitSuspendedWhileDragging ==
  /\ [](orbitEnabled <=> ~ dragging)
  /\ [][(lastArg'.target = "DIV" /\ dragging) =>
          UNCHANGED <<selectedObject, selectedObjects, gizmo, rec, mesh>>]_vars

\* a click in the viewport while a drag is in progress
OrbitSuspendedWhileDraggingWitness ==
  /\ dragging
  /\ ~ orbitEnabled
  /\ lastArg.target = "DIV"
  /\ selectedObject # Null
  /\ Len(objects) = 2

\* the callbacks of a handler the browser has still to run
Pending(handler) ==
  Len(SelectSeq(home.frames, LAMBDA c : c.handler = handler))

\* C31: each of handleMouseMove and handleScroll has at most one
\* animation-frame callback pending, and a frame makes at most one state
\* update for each of them
CoalescedFrames ==
  /\ Pending("mouse") <= 1
  /\ Pending("scroll") <= 1
  /\ home.updates.mouse <= 1
  /\ home.updates.scroll <= 1

\* a mousemove arrived while a callback of an earlier one was pending
CoalescedFramesWitness ==
  /\ Pending("mouse") = 1
  /\ home.frames[1].handler = "mouse"
  /\ home.pointer.x # home.frames[1].e.clientX

\* C38: once no more mousemove arrives, cursorPosition gets to be the
\* position of the last mousemove
LatestPointerWins ==
  (home.budget = 0) ~> (home.cursorPosition = home.pointer)

\* C32: two objects of the registry built for the same shape kind, by
\* addPrimitive or by undo, have the same geometry
SameKindSameGeometry ==
  \A i, j \in 1..Len(objects) :
    (rec[objects[i]].type = rec[objects[j]].type /\ rec[objects[i]].type # "imported")
      => mesh[rec[objects[i]].mesh].geometry = mesh[rec[objects[j]].mesh].geometry

\* C33: the primary selection and every member of the selection set have
\* the id and the mesh of an object of the registry
SelectionIsLive ==
  \A r \in (Range(selectedObjects) \cup {selectedObject}) \ {Null} :
    \E i \in 1..Len(objects) :
      /\ rec[objects[i]].id = rec[r].id
      /\ rec[objects[i]].mesh = rec[r].mesh

\* C34: an attached gizmo is on the mesh of an object of the registry, and
\* that mesh is in the scene and not disposed
GizmoOnLiveMesh ==
  gizmo # Null =>
    /\ gizmo \in scene
    /\ mesh[gizmo].disposed = 0
    /\ \E i \in 1..Len(objects) : rec[objects[i]].mesh = gizmo

\* C35: after updateObjectProperty('name', v) the object of the registry
\* with the primary's id has the name v
RenameReachesRegistry ==
  [][(lastOp' = "updateObjectProperty" /\ lastArg'.property = "name") =>
       \E i \in 1..Len(objects') :
         /\ rec'[objects'[i]].id = rec'[selectedObject'].id
         /\ rec'[objects'[i]].name.base = lastArg'.value.text]_vars

\* the ids the Delete key is to remove: those of the selection set when
\* it has more than one member, else that of the primary
DeleteKeyIds ==
  IF Len(selectedObjects) > 1 THEN SelectedIds
  ELSE IF selectedObject # Null THEN {rec[selectedObject].id}
  ELSE {}

\* C36: Delete or Backspace pressed outside a field removes the objects
\* of the selection, and no other, from the registry and from the scene
\* and pushes one snapshot; the undo right after brings all of them back
DeleteKeyIsOneStep ==
  [][/\ (lastArg'.key \in {"delete", "backspace"} /\ lastArg'.target = "BODY") =>
          /\ LiveIds' = LiveIds \ DeleteKeyIds
          /\ \A i \in 1..Len(objects) :
               rec[objects[i]].id \in DeleteKeyIds <=> rec[objects[i]].mesh \notin scene'
          /\ DeleteKeyIds # {} => Len(undoStack') = Len(undoStack) + 1
     /\ (lastArg.key \in {"delete", "backspace"} /\ lastArg.target = "BODY"
           /\ lastOp' = "undo"
           /\ Len(undoStack') < Len(undoStack)) =>
          LiveIds' = {Last(undoStack)[i].id : i \in 1..Len(Last(undoStack))}]_vars

\* C37: when an import fails right after it was requested, the undo stack
\* is again what it was before the request: the snapshot importModel
\* pushed is gone
FailedImportKeepsUndoStack ==
  [][(lastOp = "importModel" /\ lastOp' = "importFailed") =>
       undoStack' = DropLast(undoStack)]_vars

\* twice the signed area of the triangle of vertices p, q, r in the grid
Winding(p, q, r) == (q.u - p.u) * (r.v - p.v) - (q.v - p.v) * (r.u - p.u)

\* vertex number n, counted from 0 as the index buffer does
VertexAt(n) == parametric.vertices[n + 1]

\* C39: the finished builder has (slices+1)*(stacks+1) vertices and
\* 2*slices*stacks triangles, every index is the number of a vertex, cell
\* (i, j) has the triangles (a, b, d) and (b, c, d) of its corners, and
\* all triangles wind the same way
GridTriangulation ==
  parametric.phase = "done" =>
    LET slices == parametric.slices
        stacks == parametric.stacks
        idx == parametric.indices
        n == Len(parametric.vertices)
    IN /\ n = (slices + 1) * (stacks + 1)
       /\ Len(idx) = 3 * 2 * slices * stacks
       /\ \A k \in 1..Len(idx) : idx[k] \in 0..(n - 1)
       /\ \A i \in 0..(stacks - 1), j \in 0..(slices - 1) :
            LET at == 6 * (i * slices + j)
                a == [u |-> j, v |-> i]
                b == [u |-> j + 1, v |-> i]
                c == [u |-> j + 1, v |-> i + 1]
                d == [u |-> j, v |-> i + 1]
            IN <<VertexAt(idx[at + 1]), VertexAt(idx[at + 2]), VertexAt(idx[at + 3]),
                 VertexAt(idx[at + 4]), VertexAt(idx[at + 5]), VertexAt(idx[at + 6])>>
                 = <<a, b, d, b, c, d>>
       /\ \A t \in 0..(2 * slices * stacks - 1) :
            Winding(VertexAt(idx[3 * t + 1]), VertexAt(idx[3 * t + 2]),
                    VertexAt(idx[3 * t + 3])) > 0

\* a finished grid of more than one cell in each direction
GridTriangulationWitness ==
  /\ parametric.phase = "done"
  /\ parametric.slices = 3
  /\ parametric.stacks = 2
====
